---- MODULE Spec2Model ----
(***************************************************************************)
(* Model of the analytical aces-dev reference config generator             *)
(* (opencolorio_config_aces/config/reference/generate/analytical.py).      *)
(*                                                                         *)
(* Names (colorspace, display and view names) are sequences of one         *)
(* character strings, so that substitution, stripping and lexicographic    *)
(* comparison are computed character by character.  Node names are         *)
(* sequences of their NODE_NAME_SEPARATOR separated segments.              *)
(***************************************************************************)
EXTENDS Integers, Sequences, FiniteSets, TLC

VARIABLES
    graph,               \* the conversion graph: [nodes: Seq(node), edges: set of <<source, target>>]
    catalogue,           \* which set of discovered CTL transforms the graph is built from
    pc,                  \* position of generate_config_aces
    family_idx,          \* index of the current family of the outer loop (line 294)
    node_idx,            \* index of the current node of the inner loop (line 296)
    family_colourspaces, \* line 295
    colorspaces,         \* line 265
    displays,            \* line 266 (the set)
    views,               \* line 267
    sorted_displays,     \* line 323 (the list "displays" is rebound to)
    data,                \* line 335, the ConfigData
    t_pc,                \* position of a single node_to_builtin_transform call
    t_node,              \* its "node" argument
    t_direction,         \* its "direction" argument
    t_path,              \* its local "path" after line 144
    t_result,            \* its return value
    b_pc,                \* position of the beautify_view_name applications
    b_name,              \* the name given to beautify_view_name
    b_once,              \* beautify_view_name(b_name)
    b_twice              \* beautify_view_name(beautify_view_name(b_name))

gen_vars == <<pc, family_idx, node_idx, family_colourspaces, colorspaces,
              displays, views, sorted_displays, data>>
t_vars == <<t_pc, t_node, t_direction, t_path, t_result>>
b_vars == <<b_pc, b_name, b_once, b_twice>>
vars == <<graph, catalogue, gen_vars, t_vars, b_vars>>

(***************************************************************************)
(* Bounds.                                                                 *)
(***************************************************************************)
\* Largest number of edges of an input graph.
MaxEdges == 3
\* Largest number of text chunks a name given to beautify_view_name is made of.
MaxChunks == 4

(***************************************************************************)
(* Strings.                                                                *)
(***************************************************************************)
\* Code point of each character that occurs in a compared name
\* (Python compares str values code point by code point).
Ord(c) ==
    CASE c = " " -> 32 [] c = "(" -> 40 [] c = ")" -> 41 [] c = "-" -> 45
      [] c = "." -> 46 [] c = "0" -> 48 [] c = "1" -> 49 [] c = "3" -> 51
      [] c = "4" -> 52 [] c = "6" -> 54 [] c = "7" -> 55 [] c = "8" -> 56
      [] c = "9" -> 57 [] c = "A" -> 65 [] c = "B" -> 66 [] c = "C" -> 67
      [] c = "D" -> 68 [] c = "E" -> 69 [] c = "G" -> 71 [] c = "I" -> 73
      [] c = "L" -> 76 [] c = "O" -> 79 [] c = "P" -> 80 [] c = "R" -> 82
      [] c = "S" -> 83 [] c = "U" -> 85 [] c = "a" -> 97 [] c = "c" -> 99
      [] c = "d" -> 100 [] c = "e" -> 101 [] c = "g" -> 103 [] c = "i" -> 105
      [] c = "l" -> 108 [] c = "m" -> 109 [] c = "n" -> 110 [] c = "o" -> 111
      [] c = "p" -> 112 [] c = "s" -> 115 [] c = "t" -> 116 [] c = "u" -> 117
      [] c = "w" -> 119 [] c = "y" -> 121

SetMin(S) == CHOOSE x \in S : \A y \in S : x <= y

\* a < b for Python str values.
StrLess(a, b) ==
    LET n == IF Len(a) <= Len(b) THEN Len(a) ELSE Len(b)
        diff == {i \in 1..n : a[i] # b[i]}
    IN  IF diff = {} THEN Len(a) < Len(b)
        ELSE Ord(a[SetMin(diff)]) < Ord(b[SetMin(diff)])

\* re.match of a literal pattern at position i of s.
MatchesAt(pattern, s, i) ==
    /\ i + Len(pattern) - 1 <= Len(s)
    /\ SubSeq(s, i, i + Len(pattern) - 1) = pattern

\* Whether the literal pattern occurs in s (re.search).
Occurs(pattern, s) == \E i \in 1..Len(s) : MatchesAt(pattern, s, i)

RECURSIVE re_sub_from(_, _, _, _)
re_sub_from(pattern, repl, s, i) ==
    IF i > Len(s) THEN <<>>
    ELSE IF MatchesAt(pattern, s, i)
         THEN repl \o re_sub_from(pattern, repl, s, i + Len(pattern))
         ELSE <<s[i]>> \o re_sub_from(pattern, repl, s, i + 1)

\* re.sub(pattern, repl, s) for a literal, non-empty pattern: the leftmost
\* non-overlapping occurrences are replaced in one left to right scan.
re_sub(pattern, repl, s) == re_sub_from(pattern, repl, s, 1)

RECURSIVE lstrip(_)
lstrip(s) == IF s # <<>> /\ Head(s) = " " THEN lstrip(Tail(s)) ELSE s

RECURSIVE rstrip(_)
rstrip(s) ==
    IF s # <<>> /\ s[Len(s)] = " " THEN rstrip(SubSeq(s, 1, Len(s) - 1)) ELSE s

\* str.strip()
strip(s) == rstrip(lstrip(s))

(***************************************************************************)
(* View name beautification.                                               *)
(***************************************************************************)
Pat100NitsDim == <<"(", "1", "0", "0", " ", "n", "i", "t", "s", ")", " ", "d", "i", "m">>
Pat100Nits == <<"(", "1", "0", "0", " ", "n", "i", "t", "s", ")">>
Pat48Nits == <<"(", "4", "8", " ", "n", "i", "t", "s", ")">>
\* ACES_CONFIG_COLORSPACE_NAME_SEPARATOR, " - "
ACES_CONFIG_COLORSPACE_NAME_SEPARATOR == <<" ", "-", " ">>
PatOutput == <<"O", "u", "t", "p", "u", "t">> \o ACES_CONFIG_COLORSPACE_NAME_SEPARATOR

\* The patterns in the order a later, more general pattern is tried first.
VIEW_NAME_SUBSTITUTION_PATTERNS_reordered ==
    << [pattern |-> Pat100Nits, repl |-> <<>>],
       [pattern |-> Pat100NitsDim, repl |-> <<>>],
       [pattern |-> Pat48Nits, repl |-> <<>>],
       [pattern |-> PatOutput, repl |-> <<>>] >>

\* The dict of lines 43-48, in insertion order.
VIEW_NAME_SUBSTITUTION_PATTERNS ==
    << [pattern |-> Pat100NitsDim, repl |-> <<>>],
       [pattern |-> Pat100Nits, repl |-> <<>>],
       [pattern |-> Pat48Nits, repl |-> <<>>],
       [pattern |-> PatOutput, repl |-> <<>>] >>

RECURSIVE apply_patterns(_, _, _)
apply_patterns(name, patterns, i) ==
    IF i > Len(patterns) THEN name
    ELSE apply_patterns(re_sub(patterns[i].pattern, patterns[i].repl, name),
                        patterns, i + 1)

\* beautify_name(name, patterns): the patterns applied in succession, then
\* the surrounding whitespace stripped.
beautify_name(name, patterns) == strip(apply_patterns(name, patterns, 1))

beautify_view_name(name) == beautify_name(name, VIEW_NAME_SUBSTITUTION_PATTERNS)

(***************************************************************************)
(* The conversion graph and the CTL transform data of its nodes.           *)
(***************************************************************************)
\* NODE_NAME_SEPARATOR separates the segments of a node name; a node name is
\* modelled as the sequence of its segments.
ACES_CONFIG_REFERENCE_COLORSPACE == <<"ACES2065-1">>
ACES_CONFIG_OUTPUT_ENCODING_COLORSPACE == <<"OCES">>
ACES_CONFIG_BUILTIN_TRANSFORM_NAME_SEPARATOR == "_to_"

ReferenceNodes ==
    {ACES_CONFIG_REFERENCE_COLORSPACE, ACES_CONFIG_OUTPUT_ENCODING_COLORSPACE}

Str_sRGB == <<"s", "R", "G", "B">>
Str_Rec709 == <<"R", "e", "c", ".", " ", "7", "0", "9">>
Str_P3 == <<"P", "3">>
Str_CSC == <<"C", "S", "C">>
Str_Raw == <<"U", "t", "i", "l", "i", "t", "y", " ", "-", " ", "R", "a", "w">>

Node_sRGB == <<"output_transform", "RGBmonitor_100nits_dim">>
Node_ACEScg == <<"csc", "ACEScg">>
Node_Rec709 == <<"output_transform", "Rec709_100nits_dim">>
Node_Rec709D60 == <<"output_transform", "Rec709_D60sim_100nits_dim">>
Node_P3Rec709D60 == <<"output_transform", "P3D60_Rec709D60sim_48nits">>
Node_LogC == <<"input_transform", "LogC">>
Node_Look == <<"lmt", "Look">>

Name_ACES == Str_CSC \o ACES_CONFIG_COLORSPACE_NAME_SEPARATOR
                \o <<"A", "C", "E", "S", "2", "0", "6", "5", "-", "1">>
Name_OCES == Str_CSC \o ACES_CONFIG_COLORSPACE_NAME_SEPARATOR
                \o <<"O", "C", "E", "S">>
Name_sRGB == PatOutput \o Str_sRGB \o <<" ">> \o Pat100NitsDim
Name_ACEScg == Str_CSC \o ACES_CONFIG_COLORSPACE_NAME_SEPARATOR
                \o <<"A", "C", "E", "S", "c", "g">>
Name_Rec709 == PatOutput \o Str_Rec709 \o <<" ">> \o Pat100NitsDim
Name_Rec709D60 ==
    PatOutput \o Str_Rec709 \o <<" ", "D", "6", "0", " ">> \o Pat100NitsDim
Name_P3Rec709D60 ==
    PatOutput \o Str_Rec709 \o <<" ", "D", "6", "0", " ">> \o Pat48Nits
Name_LogC == <<"I", "n", "p", "u", "t">> \o ACES_CONFIG_COLORSPACE_NAME_SEPARATOR
                \o <<"L", "o", "g", "C">>
Name_Look == <<"L", "M", "T">> \o ACES_CONFIG_COLORSPACE_NAME_SEPARATOR
                \o <<"L", "o", "o", "k">>

CTLTransform(family, genus, name) ==
    [family |-> family, genus |-> genus, name |-> name]

\* Two sets of discovered CTL transforms: the nodes in the order the graph
\* holds them, and the CTL transform each node carries.  A reference node
\* carries the CTL transform that first mentioned it.  The first set has a
\* node of every family; the second has output transforms of three displays,
\* two of them on one display and two of them with one view name.
Catalogues ==
    << [ nodes |-> << Node_LogC, ACES_CONFIG_REFERENCE_COLORSPACE, Node_ACEScg,
                      Node_Look, ACES_CONFIG_OUTPUT_ENCODING_COLORSPACE,
                      Node_Rec709 >>,
         ctl |-> ( Node_LogC :> CTLTransform("input_transform", "undefined", Name_LogC)
                @@ ACES_CONFIG_REFERENCE_COLORSPACE :> CTLTransform("csc", "undefined", Name_ACEScg)
                @@ Node_ACEScg :> CTLTransform("csc", "undefined", Name_ACEScg)
                @@ Node_Look :> CTLTransform("lmt", "undefined", Name_Look)
                @@ ACES_CONFIG_OUTPUT_ENCODING_COLORSPACE :> CTLTransform("output_transform", "rec709", Name_Rec709)
                @@ Node_Rec709 :> CTLTransform("output_transform", "rec709", Name_Rec709) ) ],
       [ nodes |-> << Node_Rec709D60, Node_sRGB,
                      ACES_CONFIG_OUTPUT_ENCODING_COLORSPACE, Node_Rec709,
                      Node_P3Rec709D60, ACES_CONFIG_REFERENCE_COLORSPACE >>,
         ctl |-> ( Node_Rec709D60 :> CTLTransform("output_transform", "rec709", Name_Rec709D60)
                @@ Node_sRGB :> CTLTransform("output_transform", "rgbMonitor", Name_sRGB)
                @@ ACES_CONFIG_OUTPUT_ENCODING_COLORSPACE :> CTLTransform("output_transform", "rec709", Name_Rec709D60)
                @@ Node_Rec709 :> CTLTransform("output_transform", "rec709", Name_Rec709)
                @@ Node_P3Rec709D60 :> CTLTransform("output_transform", "p3", Name_P3Rec709D60)
                @@ ACES_CONFIG_REFERENCE_COLORSPACE :> CTLTransform("output_transform", "rec709", Name_Rec709D60) ) ] >>

Range(seq) == {seq[i] : i \in 1..Len(seq)}

RECURSIVE EdgeSets(_, _)
\* The sets of at most k of the given edges.
EdgeSets(pairs, k) ==
    IF k = 0 THEN {{}}
    ELSE LET smaller == EdgeSets(pairs, k - 1)
         IN  smaller \cup {s \cup {e} : s \in smaller, e \in pairs}

\* build_aces_conversion_graph: a node is in the graph when an edge mentions
\* it; the two reference nodes are always there.
Graphs(cat) ==
    LET all == Range(cat.nodes)
        pairs == {e \in all \X all : e[1] # e[2]}
    IN  { [ nodes |-> SelectSeq(cat.nodes,
                        LAMBDA n : n \in ReferenceNodes
                                   \/ \E e \in edges : n = e[1] \/ n = e[2]),
            edges |-> edges ] : edges \in EdgeSets(pairs, MaxEdges) }

\* The CTL transform each node carries.
ctl == Catalogues[catalogue].ctl

\* node_to_ctl_transform(graph, node)
node_to_ctl_transform(node) == ctl[node]

\* filter_nodes(graph, [lambda x: x.family == family]): the nodes, in the
\* graph's order, whose CTL transform is of the family.
filter_nodes(g, family) ==
    SelectSeq(g.nodes, LAMBDA n : node_to_ctl_transform(n).family = family)

(***************************************************************************)
(* Shortest paths.                                                         *)
(***************************************************************************)
Last(seq) == seq[Len(seq)]

RECURSIVE ShortestWalks(_, _, _, _)
\* Breadth first: the walks of k edges extended by one edge until some reach
\* the target; no walk needs more edges than the graph has nodes.
ShortestWalks(g, walks, target, k) ==
    LET arrived == {w \in walks : Last(w) = target}
    IN  IF arrived # {} THEN arrived
        ELSE IF walks = {} \/ k >= Len(g.nodes) THEN {}
        ELSE ShortestWalks(g,
                 UNION { {Append(w, e[2]) : e \in {x \in g.edges : x[1] = Last(w)}}
                         : w \in walks },
                 target, k + 1)

\* The node sequences networkx.shortest_path may return; empty when the
\* target cannot be reached.
ShortestNodePaths(g, source, target) ==
    ShortestWalks(g, {<<source>>}, target, 0)

\* conversion_path(graph, source, target): the edges of a shortest path, or
\* NetworkXNoPath raised.
conversion_path(g, source, target) ==
    LET found == ShortestNodePaths(g, source, target)
    IN  IF found = {} THEN {[raised |-> "NetworkXNoPath", path |-> <<>>]}
        ELSE { [raised |-> "",
                path |-> [i \in 1..(Len(w) - 1) |-> <<w[i], w[i + 1]>>]]
               : w \in found }

(***************************************************************************)
(* Builtin transforms.                                                     *)
(***************************************************************************)
None == [kind |-> "None"]
\* An exception leaving the function.
Raised(exception) == [kind |-> "Raised", exception |-> exception]

\* The styles OpenColorIO's BuiltinTransform.setStyle accepts.
BuiltinStyles ==
    { <<"ACEScg", ACES_CONFIG_BUILTIN_TRANSFORM_NAME_SEPARATOR, "ACES2065-1">>,
      <<"ACES2065-1", ACES_CONFIG_BUILTIN_TRANSFORM_NAME_SEPARATOR, "ACEScg">>,
      <<"ACES2065-1", ACES_CONFIG_BUILTIN_TRANSFORM_NAME_SEPARATOR, "OCES">>,
      <<"LogC", ACES_CONFIG_BUILTIN_TRANSFORM_NAME_SEPARATOR, "ACES2065-1">> }

create_builtin_transform(style) ==
    IF style \in BuiltinStyles
    THEN [kind |-> "BuiltinTransform", style |-> style]
    ELSE [kind |-> "FileTransform", src |-> style]

\* str.lower() of a direction.
lower(direction) ==
    CASE direction = "Forward" -> "forward"
      [] direction = "Reverse" -> "reverse"
      [] OTHER -> direction

\* The endpoints never reversed.
path_endpoints_never_reversed(node, direction) ==
    <<node, ACES_CONFIG_REFERENCE_COLORSPACE>>

\* Lines 142-143: the endpoints handed to conversion_path.
path_endpoints(node, direction) ==
    IF lower(direction) = "forward"
    THEN <<node, ACES_CONFIG_REFERENCE_COLORSPACE>>
    ELSE <<ACES_CONFIG_REFERENCE_COLORSPACE, node>>

\* Line 144: the outcomes of the conversion_path call.
resolve_path(g, node, direction) ==
    conversion_path(g, path_endpoints(node, direction)[1],
                       path_endpoints(node, direction)[2])

\* Lines 153-158.
transform_styles(path) ==
    [i \in 1..Len(path) |->
        << Last(path[i][1]), ACES_CONFIG_BUILTIN_TRANSFORM_NAME_SEPARATOR,
           Last(path[i][2]) >>]

\* The group filled from the last style to the first.
build_transform_reversed(styles) ==
    IF Len(styles) = 1
    THEN create_builtin_transform(styles[1])
    ELSE [kind |-> "GroupTransform",
          transforms |-> [i \in 1..Len(styles) |->
                             create_builtin_transform(styles[Len(styles) + 1 - i])]]

\* Lines 160-171.
build_transform(styles) ==
    IF Len(styles) = 1
    THEN create_builtin_transform(styles[1])
    ELSE [kind |-> "GroupTransform",
          transforms |-> [i \in 1..Len(styles) |-> create_builtin_transform(styles[i])]]

\* node_to_builtin_transform with NetworkXNoPath left uncaught.
node_to_builtin_transform_uncaught(outcome) ==
    IF outcome.raised # "" THEN Raised(outcome.raised)
    ELSE IF outcome.path = <<>> THEN None
    ELSE build_transform(transform_styles(outcome.path))

\* node_to_builtin_transform, given the outcome of its conversion_path call.
node_to_builtin_transform(outcome) ==
    IF outcome.raised = "NetworkXNoPath" THEN None
    ELSE IF outcome.raised # "" THEN Raised(outcome.raised)
    ELSE IF outcome.path = <<>> THEN None
    ELSE build_transform(transform_styles(outcome.path))

(***************************************************************************)
(* Colorspaces.                                                            *)
(***************************************************************************)
\* colorspace_factory: a transform that is None is not set.
colorspace_factory(name, family, to_reference, from_reference, is_data) ==
    [name |-> name, family |-> family, to_reference |-> to_reference,
     from_reference |-> from_reference, is_data |-> is_data]

\* ctl_transform_to_colorspace(ctl_transform, describe, to_reference, from_reference)
ctl_transform_to_colorspace(ctl_transform, to_reference, from_reference) ==
    colorspace_factory(ctl_transform.name, ctl_transform.family,
                       to_reference, from_reference, FALSE)

\* node_to_colorspace, given the outcomes of the two conversion_path calls.
node_to_colorspace(node, forward, reverse) ==
    ctl_transform_to_colorspace(node_to_ctl_transform(node),
                                node_to_builtin_transform(forward),
                                node_to_builtin_transform(reverse))

\* Lines 269-273.
scene_reference_colorspace ==
    colorspace_factory(Name_ACES, "ACES", None, None, FALSE)

\* Lines 275-280, given the outcome of the conversion_path call.
display_reference_colorspace(reverse) ==
    colorspace_factory(Name_OCES, "ACES", None,
                       node_to_builtin_transform(reverse), FALSE)

\* Lines 282-286.
raw_colorspace == colorspace_factory(Str_Raw, "Utility", None, None, TRUE)

\* The families of line 294, in another order.
FAMILIES_output_first == <<"output_transform", "csc", "input_transform", "lmt">>

\* Line 294.
FAMILIES == <<"csc", "input_transform", "lmt", "output_transform">>

\* The colorspace kept only when it carries a transform.
append_colorspace_with_transform(family_list, colorspace) ==
    IF colorspace.to_reference = None /\ colorspace.from_reference = None
    THEN family_list
    ELSE Append(family_list, colorspace)

\* Line 303.
append_colorspace(family_list, colorspace) == Append(family_list, colorspace)

(***************************************************************************)
(* Displays and views.                                                     *)
(***************************************************************************)
\* beautify_display_name(genus)
beautify_display_name(genus) ==
    CASE genus = "rgbMonitor" -> Str_sRGB
      [] genus = "rec709" -> Str_Rec709
      [] genus = "p3" -> Str_P3

View(display, view, colorspace) ==
    [display |-> display, view |-> view, colorspace |-> colorspace]

\* Lines 306-314: the view of an output transform colorspace.
output_view(node, colorspace) ==
    View(beautify_display_name(node_to_ctl_transform(node).genus),
         beautify_view_name(colorspace.name), colorspace.name)

\* The sort key of line 322 with the display left out.
view_key_less_view_only(x, y) == StrLess(x.view, y.view)

\* Line 322: key(x) < key(y) for the key (x['display'], x['view']).
view_key_less(x, y) ==
    \/ StrLess(x.display, y.display)
    \/ x.display = y.display /\ StrLess(x.view, y.view)

\* One step of a stable sort: x goes after the elements that are not
\* greater than it.
insert_sorted(sorted_seq, x) ==
    LET n == Cardinality({i \in 1..Len(sorted_seq) : ~view_key_less(x, sorted_seq[i])})
    IN  SubSeq(sorted_seq, 1, n) \o <<x>> \o SubSeq(sorted_seq, n + 1, Len(sorted_seq))

RECURSIVE sorted_from(_, _, _)
sorted_from(seq, i, acc) ==
    IF i > Len(seq) THEN acc ELSE sorted_from(seq, i + 1, insert_sorted(acc, seq[i]))

\* Line 322: sorted(views, key=...), a stable sort.
sorted_views(seq) == sorted_from(seq, 1, <<>>)

RECURSIVE sorted_strings(_)
\* Line 323: sorted(list(displays)).
sorted_strings(S) ==
    IF S = {} THEN <<>>
    ELSE LET least == CHOOSE x \in S : \A y \in S \ {x} : StrLess(x, y)
         IN  <<least>> \o sorted_strings(S \ {least})

\* The display list left as sorted.
pin_sRGB_never(display_list) == display_list

\* Lines 324-325.
pin_sRGB(display_list) ==
    IF \E i \in 1..Len(display_list) : display_list[i] = Str_sRGB
    THEN <<Str_sRGB>> \o SelectSeq(display_list, LAMBDA d : d # Str_sRGB)
    ELSE display_list

\* Lines 327-333: the views appended, one per display.
raw_views(display_list) ==
    LET view == beautify_view_name(raw_colorspace.name)
    IN  [i \in 1..Len(display_list) |->
            View(display_list[i], view, raw_colorspace.name)]

\* The distinct keys in the order of their last occurrence.
dict_fromkeys_last(keys) ==
    LET lasts == SelectSeq([i \in 1..Len(keys) |-> <<i, keys[i]>>],
                           LAMBDA p : \A j \in (p[1] + 1)..Len(keys) : keys[j] # p[2])
    IN  [i \in 1..Len(lasts) |-> lasts[i][2]]

\* list(dict.fromkeys(keys)): the distinct keys in first-seen order.
dict_fromkeys(keys) ==
    LET firsts == SelectSeq([i \in 1..Len(keys) |-> <<i, keys[i]>>],
                            LAMBDA p : \A j \in 1..(p[1] - 1) : keys[j] # p[2])
    IN  [i \in 1..Len(firsts) |-> firsts[i][2]]

\* Line 343.
active_views_of(view_list) ==
    dict_fromkeys([i \in 1..Len(view_list) |-> view_list[i].view])

(***************************************************************************)
(* generate_config_aces.                                                   *)
(***************************************************************************)
NoData == [assembled |-> FALSE]

IdleTransform ==
    /\ t_pc = "idle" /\ t_node = <<>> /\ t_direction = "" /\ t_path = <<>>
    /\ t_result = None

IdleBeautify == b_pc = "idle" /\ b_name = <<>> /\ b_once = <<>> /\ b_twice = <<>>

IdleGenerate ==
    /\ pc = "idle" /\ family_idx = 0 /\ node_idx = 0
    /\ family_colourspaces = <<>> /\ colorspaces = <<>> /\ displays = {}
    /\ views = <<>> /\ sorted_displays = <<>> /\ data = NoData

\* Lines 257-267: the graph built from the discovered CTL transforms.
Init ==
    /\ catalogue \in 1..Len(Catalogues)
    /\ graph \in Graphs(Catalogues[catalogue])
    /\ pc = "start" /\ family_idx = 0 /\ node_idx = 0
    /\ family_colourspaces = <<>> /\ colorspaces = <<>> /\ displays = {}
    /\ views = <<>> /\ sorted_displays = <<>> /\ data = NoData
    /\ IdleTransform /\ IdleBeautify

\* Lines 269-295: the three fixed colorspaces, then the first family.
CreateReferenceColorspaces ==
    /\ pc = "start"
    /\ \E reverse \in resolve_path(graph, ACES_CONFIG_OUTPUT_ENCODING_COLORSPACE, "Reverse") :
          LET display_reference == display_reference_colorspace(reverse)
          IN  IF display_reference.from_reference.kind = "Raised"
              THEN /\ pc' = "raised"
                   /\ UNCHANGED <<family_idx, colorspaces>>
              ELSE /\ colorspaces' = << scene_reference_colorspace,
                                        display_reference, raw_colorspace >>
                   /\ family_idx' = 1
                   /\ pc' = "nodes"
    /\ node_idx' = 1
    /\ family_colourspaces' = <<>>
    /\ UNCHANGED <<graph, catalogue, displays, views, sorted_displays, data, t_vars, b_vars>>

CurrentFamily == FAMILIES[family_idx]
CurrentNodes == filter_nodes(graph, CurrentFamily)

\* Lines 296-299: a reference node is skipped.
SkipReferenceNode ==
    /\ pc = "nodes"
    /\ node_idx <= Len(CurrentNodes)
    /\ CurrentNodes[node_idx] \in ReferenceNodes
    /\ node_idx' = node_idx + 1
    /\ UNCHANGED <<graph, catalogue, pc, family_idx, family_colourspaces, colorspaces,
                   displays, views, sorted_displays, data, t_vars, b_vars>>

\* Lines 296-318: one node of the current family.
ClassifyNode ==
    /\ pc = "nodes"
    /\ node_idx <= Len(CurrentNodes)
    /\ CurrentNodes[node_idx] \notin ReferenceNodes
    /\ LET node == CurrentNodes[node_idx]
       IN  \E forward \in resolve_path(graph, node, "Forward"),
              reverse \in resolve_path(graph, node, "Reverse") :
              LET colorspace == node_to_colorspace(node, forward, reverse)
              IN  IF \/ colorspace.to_reference.kind = "Raised"
                     \/ colorspace.from_reference.kind = "Raised"
                  THEN /\ pc' = "raised"
                       /\ UNCHANGED <<node_idx, family_colourspaces, displays, views>>
                  ELSE /\ family_colourspaces' =
                              append_colorspace(family_colourspaces, colorspace)
                       /\ IF CurrentFamily = "output_transform"
                          THEN LET view == output_view(node, colorspace)
                               IN  /\ displays' = displays \cup {view.display}
                                   /\ views' = Append(views, view)
                          ELSE UNCHANGED <<displays, views>>
                       /\ node_idx' = node_idx + 1
                       /\ pc' = pc
    /\ UNCHANGED <<graph, catalogue, family_idx, colorspaces, sorted_displays, data,
                   t_vars, b_vars>>

\* Line 320, then the next family (lines 294-295) or the end of the loop.
EndFamily ==
    /\ pc = "nodes"
    /\ node_idx > Len(CurrentNodes)
    /\ colorspaces' = colorspaces \o family_colourspaces
    /\ family_colourspaces' = <<>>
    /\ node_idx' = 1
    /\ IF family_idx < Len(FAMILIES)
       THEN family_idx' = family_idx + 1 /\ pc' = pc
       ELSE family_idx' = family_idx /\ pc' = "organize"
    /\ UNCHANGED <<graph, catalogue, displays, views, sorted_displays, data, t_vars, b_vars>>

\* Lines 322-333.
OrganizeViews ==
    /\ pc = "organize"
    /\ sorted_displays' = pin_sRGB(sorted_strings(displays))
    /\ views' = sorted_views(views) \o raw_views(sorted_displays')
    /\ pc' = "assemble"
    /\ UNCHANGED <<graph, catalogue, family_idx, node_idx, family_colourspaces,
                   colorspaces, displays, data, t_vars, b_vars>>

\* Lines 335-348.
Assemble ==
    /\ pc = "assemble"
    /\ data' = [ assembled |-> TRUE,
                 roles |-> [scene_linear |-> Name_ACEScg],
                 colorspaces |-> colorspaces,
                 views |-> views,
                 active_displays |-> sorted_displays,
                 active_views |-> active_views_of(views),
                 file_rules |-> <<[name |-> "Default", colorspace |-> Name_ACEScg]>>,
                 profile_version |-> 2 ]
    /\ pc' = "done"
    /\ UNCHANGED <<graph, catalogue, family_idx, node_idx, family_colourspaces,
                   colorspaces, displays, views, sorted_displays, t_vars, b_vars>>

Next ==
    \/ CreateReferenceColorspaces
    \/ SkipReferenceNode
    \/ ClassifyNode
    \/ EndFamily
    \/ OrganizeViews
    \/ Assemble

Spec == Init /\ [][Next]_vars

(***************************************************************************)
(* A single node_to_builtin_transform call.                                *)
(***************************************************************************)
Directions == {"Forward", "Reverse"}

InitTransform ==
    /\ catalogue = 1
    /\ graph \in Graphs(Catalogues[catalogue])
    /\ t_pc = "call"
    /\ t_node \in Range(graph.nodes)
    /\ t_direction \in Directions
    /\ t_path = <<>>
    /\ t_result = None
    /\ IdleGenerate /\ IdleBeautify

\* Lines 139-175.
NodeToBuiltinTransform ==
    /\ t_pc = "call"
    /\ \E outcome \in resolve_path(graph, t_node, t_direction) :
          /\ t_path' = outcome.path
          /\ t_result' = node_to_builtin_transform(outcome)
          /\ t_pc' = IF t_result'.kind = "Raised" THEN "raised" ELSE "returned"
    /\ UNCHANGED <<graph, catalogue, t_node, t_direction, gen_vars, b_vars>>

NextTransform == NodeToBuiltinTransform

SpecTransform == InitTransform /\ [][NextTransform]_vars

(***************************************************************************)
(* beautify_view_name applied to a name, and to its own result.            *)
(***************************************************************************)
Chunks ==
    { <<"(", "1", "0", "0", " ">>, <<"n", "i", "t", "s", ")">>,
      <<" ", "d", "i", "m">>, <<"(", "4", "8", " ">>,
      <<"O", "u", "t", "p", "u", "t">>, ACES_CONFIG_COLORSPACE_NAME_SEPARATOR,
      Str_Rec709 \o <<" ">> }

RECURSIVE ChunkNames(_)
\* The names made of at most k chunks.
ChunkNames(k) ==
    IF k = 0 THEN {<<>>}
    ELSE LET shorter == ChunkNames(k - 1)
         IN  shorter \cup {n \o c : n \in shorter, c \in Chunks}

InitBeautify ==
    /\ catalogue = 1
    /\ graph = [nodes |-> <<>>, edges |-> {}]
    /\ b_pc = "start"
    /\ b_name \in ChunkNames(MaxChunks)
    /\ b_once = <<>>
    /\ b_twice = <<>>
    /\ IdleGenerate /\ IdleTransform

Beautify ==
    /\ b_pc = "start"
    /\ b_once' = beautify_view_name(b_name)
    /\ b_pc' = "once"
    /\ UNCHANGED <<graph, catalogue, b_name, b_twice, gen_vars, t_vars>>

BeautifyAgain ==
    /\ b_pc = "once"
    /\ b_twice' = beautify_view_name(b_once)
    /\ b_pc' = "twice"
    /\ UNCHANGED <<graph, catalogue, b_name, b_once, gen_vars, t_vars>>

NextBeautify == Beautify \/ BeautifyAgain

SpecBeautify == InitBeautify /\ [][NextBeautify]_vars

(***************************************************************************)
(* Properties of beautify_view_name.                                       *)
(***************************************************************************)
Str_Example == Str_Rec709 \o <<" ">> \o Pat100NitsDim

\* Whether one of the four patterns still occurs in the name.
SomePatternOccurs(name) ==
    \/ Occurs(Pat100NitsDim, name)
    \/ Occurs(Pat100Nits, name)
    \/ Occurs(Pat48Nits, name)
    \/ Occurs(PatOutput, name)

\* C9, as stated: beautify_view_name is idempotent for every name, and
\* beautify_view_name('Rec. 709 (100 nits) dim') == 'Rec. 709'.
C9_Idempotent ==
    /\ b_pc = "twice" => b_twice = b_once
    /\ (b_pc # "start" /\ b_name = Str_Example) => b_once = Str_Rec709

\* C9, amended: beautifying a second time changes nothing exactly when no
\* pattern occurs in the once beautified name; removing an occurrence can
\* join the text around it into a new occurrence, which only the second
\* application removes.  beautify_view_name('Rec. 709 (100 nits) dim') ==
\* 'Rec. 709'.
C9_IdempotentUnlessPatternRemains ==
    /\ b_pc = "twice" => (b_twice = b_once <=> ~SomePatternOccurs(b_once))
    /\ (b_pc # "start" /\ b_name = Str_Example) => b_once = Str_Rec709

\* A name of which a pattern is removed, and whose second beautification
\* changes nothing.
C9_Witness ==
    /\ b_pc = "twice"
    /\ b_name = Str_Example
    /\ b_once = Str_Rec709
    /\ b_twice = b_once

\* A name whose once beautified form still holds a pattern.
C9_WitnessPatternRemains ==
    /\ b_pc = "twice"
    /\ SomePatternOccurs(b_once)
    /\ b_twice # b_once

(***************************************************************************)
(* Properties of node_to_builtin_transform.                                *)
(***************************************************************************)
RECURSIVE ReachableFrom(_, _)
\* The nodes a directed path leads to from a node of S.
ReachableFrom(g, S) ==
    LET more == S \cup {e[2] : e \in {x \in g.edges : x[1] \in S}}
    IN  IF more = S THEN S ELSE ReachableFrom(g, more)

\* Whether a directed path leads from source to target.
HasPath(g, source, target) == target \in ReachableFrom(g, {source})

\* Whether the reference is connected to the node in the requested direction.
Connected(g, node, direction) ==
    IF direction = "Forward"
    THEN HasPath(g, node, ACES_CONFIG_REFERENCE_COLORSPACE)
    ELSE HasPath(g, ACES_CONFIG_REFERENCE_COLORSPACE, node)

\* Consecutive edges chain, and every edge is an edge of the graph.
IsWalk(g, path) ==
    /\ \A i \in 1..Len(path) : path[i] \in g.edges
    /\ \A i \in 1..(Len(path) - 1) : path[i][2] = path[i + 1][1]

\* C7, as stated: for a node connected to the reference, in either requested
\* direction, the resolved edge sequence is non-empty, consecutive edges
\* chain, and the walk ends at the reference node.
C7_WalkEndsAtReference ==
    ( /\ t_pc = "returned"
      /\ t_node # ACES_CONFIG_REFERENCE_COLORSPACE
      /\ Connected(graph, t_node, t_direction) )
    => /\ t_path # <<>>
       /\ IsWalk(graph, t_path)
       /\ t_path[Len(t_path)][2] = ACES_CONFIG_REFERENCE_COLORSPACE

\* C7, amended: for a node other than the reference that is connected to it
\* in the requested direction, the resolved edge sequence is non-empty and
\* consecutive edges chain; requested 'Forward' the walk starts at the node
\* and ends at the reference, requested 'Reverse' it starts at the reference
\* and ends at the node.
C7_WalkBetweenNodeAndReference ==
    ( /\ t_pc = "returned"
      /\ t_node # ACES_CONFIG_REFERENCE_COLORSPACE
      /\ Connected(graph, t_node, t_direction) )
    => /\ t_path # <<>>
       /\ IsWalk(graph, t_path)
       /\ t_direction = "Forward" =>
             /\ t_path[1][1] = t_node
             /\ t_path[Len(t_path)][2] = ACES_CONFIG_REFERENCE_COLORSPACE
       /\ t_direction = "Reverse" =>
             /\ t_path[1][1] = ACES_CONFIG_REFERENCE_COLORSPACE
             /\ t_path[Len(t_path)][2] = t_node

\* A 'Reverse' request resolved to a walk of more than one edge.
C7_Witness ==
    /\ t_pc = "returned"
    /\ t_direction = "Reverse"
    /\ t_node # ACES_CONFIG_REFERENCE_COLORSPACE
    /\ Len(t_path) >= 2
    /\ t_path[Len(t_path)][2] = t_node

\* The style of an edge: the last segment of its source, the separator, the
\* last segment of its target.
EdgeStyle(edge) ==
    <<edge[1][Len(edge[1])], "_to_", edge[2][Len(edge[2])]>>

\* The transform is the one of the edge: a builtin transform of the edge's
\* style, or a placeholder carrying that style when the style is unknown.
MirrorsEdge(transform, edge) ==
    IF EdgeStyle(edge) \in BuiltinStyles
    THEN transform = [kind |-> "BuiltinTransform", style |-> EdgeStyle(edge)]
    ELSE transform = [kind |-> "FileTransform", src |-> EdgeStyle(edge)]

\* C10: the transform mirrors the resolved path edge for edge: no transform
\* for an empty path, a single transform for one edge, a group of n
\* transforms in path order for n > 1 edges; an unknown style is replaced in
\* place by a placeholder carrying the style.
C10_TransformMirrorsPath ==
    t_pc = "returned" =>
        /\ Len(t_path) = 0 => t_result = None
        /\ Len(t_path) = 1 => MirrorsEdge(t_result, t_path[1])
        /\ Len(t_path) > 1 =>
              /\ t_result.kind = "GroupTransform"
              /\ Len(t_result.transforms) = Len(t_path)
              /\ \A i \in 1..Len(t_path) :
                    MirrorsEdge(t_result.transforms[i], t_path[i])

\* A group that holds a builtin transform and a placeholder.
C10_Witness ==
    /\ t_pc = "returned"
    /\ Len(t_path) >= 2
    /\ t_result.kind = "GroupTransform"
    /\ \E i, j \in 1..Len(t_path) :
          /\ t_result.transforms[i].kind = "BuiltinTransform"
          /\ t_result.transforms[j].kind = "FileTransform"

(***************************************************************************)
(* Properties of generate_config_aces.                                     *)
(***************************************************************************)
\* The nodes the loop of lines 294-320 classifies.
ClassifiedNodes == Range(graph.nodes) \ ReferenceNodes

OutputNodes ==
    {n \in ClassifiedNodes : ctl[n].family = "output_transform"}

\* The positions of the node's colorspace in the colorspaces list.
EntriesOf(node) ==
    {i \in 1..Len(data.colorspaces) : data.colorspaces[i].name = ctl[node].name}

NoForwardPath(node) == ~HasPath(graph, node, ACES_CONFIG_REFERENCE_COLORSPACE)
NoReversePath(node) == ~HasPath(graph, ACES_CONFIG_REFERENCE_COLORSPACE, node)

C2_ViewColorspaceExists ==
    pc = "done" =>
        \A i \in 1..Len(data.views) :
            \E j \in 1..Len(data.colorspaces) :
                data.colorspaces[j].name = data.views[i].colorspace

\* A view seeded from an output transform node that has no path in either
\* direction, beside a Raw view.
C2_Witness ==
    /\ pc = "done"
    /\ \E n \in OutputNodes :
          /\ NoForwardPath(n) /\ NoReversePath(n)
          /\ \E i \in 1..Len(data.views) : data.views[i].colorspace = ctl[n].name
    /\ \E i \in 1..Len(data.views) : data.views[i].colorspace = Str_Raw

\* The displays derived from the output transform nodes.
DerivedDisplays ==
    {beautify_display_name(ctl[n].genus) : n \in OutputNodes}

Ascending(list) ==
    \A i, j \in 1..Len(list) : i < j => StrLess(list[i], list[j])

\* C3: active_displays holds each derived display exactly once; with 'sRGB'
\* among them it is first and the rest follows in ascending order; without,
\* the whole list is in ascending order.
C3_DisplaysSortedWithSRGBFirst ==
    pc = "done" =>
        LET list == data.active_displays
        IN  /\ Range(list) = DerivedDisplays
            /\ Len(list) = Cardinality(DerivedDisplays)
            /\ IF Str_sRGB \in DerivedDisplays
               THEN /\ list[1] = Str_sRGB
                    /\ Ascending(SubSeq(list, 2, Len(list)))
               ELSE Ascending(list)

\* Three displays, 'sRGB' among them and not the least of them.
C3_Witness ==
    /\ pc = "done"
    /\ Len(data.active_displays) = 3
    /\ data.active_displays[1] = Str_sRGB
    /\ StrLess(data.active_displays[2], Str_sRGB)

ViewNames == [i \in 1..Len(data.views) |-> data.views[i].view]

FirstOccurrence(list, x) == SetMin({i \in 1..Len(list) : list[i] = x})

\* C4: active_views holds every view name of views exactly once, in the
\* order of the names' first occurrence in views.
C4_ActiveViewsFirstSeen ==
    pc = "done" =>
        LET active == data.active_views
        IN  /\ Range(active) = Range(ViewNames)
            /\ Len(active) = Cardinality(Range(ViewNames))
            /\ \A i, j \in 1..Len(active) :
                  i < j => FirstOccurrence(ViewNames, active[i])
                             < FirstOccurrence(ViewNames, active[j])

\* A view name that occurs again after another name has been seen.
C4_Witness ==
    /\ pc = "done"
    /\ \E i, j, k \in 1..Len(data.views) :
          /\ i < j /\ j < k
          /\ ViewNames[i] = ViewNames[k]
          /\ ViewNames[i] # ViewNames[j]
          /\ ViewNames[j] # Str_Raw
          /\ \A h \in 1..(j - 1) : ViewNames[h] # ViewNames[j]

\* The views the output transform nodes seed.
SeededViews ==
    { [display |-> beautify_display_name(ctl[n].genus),
       view |-> beautify_view_name(ctl[n].name),
       colorspace |-> ctl[n].name] : n \in OutputNodes }

\* C5: views is the seeded views in ascending (display, view) order, then
\* one Raw view per display of active_displays, in the order of
\* active_displays.
C5_ViewsSortedThenRaw ==
    pc = "done" =>
        LET seeded == Cardinality(OutputNodes)
            list == data.views
        IN  /\ Len(list) = seeded + Len(data.active_displays)
            /\ {list[i] : i \in 1..seeded} = SeededViews
            /\ \A i, j \in 1..seeded :
                  i < j =>
                    \/ StrLess(list[i].display, list[j].display)
                    \/ /\ list[i].display = list[j].display
                       /\ ~StrLess(list[j].view, list[i].view)
            /\ \A i \in 1..Len(data.active_displays) :
                  list[seeded + i] =
                      [display |-> data.active_displays[i],
                       view |-> Str_Raw, colorspace |-> Str_Raw]

\* Two seeded views of one display, seeded in descending view order, and
\* 'sRGB' pinned before a lesser display.
C5_Witness ==
    /\ pc = "done"
    /\ OutputNodes = {Node_Rec709D60, Node_Rec709, Node_sRGB}
    /\ Len(data.views) = 5
    /\ data.views[1].colorspace = Name_Rec709
    /\ data.views[2].colorspace = Name_Rec709D60
    /\ data.views[4].display = Str_sRGB
    /\ data.views[5].display = Str_Rec709

FamilyIndex(family) ==
    CASE family = "csc" -> 1 [] family = "input_transform" -> 2
      [] family = "lmt" -> 3 [] family = "output_transform" -> 4

\* C6: colorspaces starts with the scene-reference, the display-reference
\* and the data-flagged Raw colorspace, in this order; the classified
\* entries follow grouped by family in the order csc, input_transform, lmt,
\* output_transform; neither reference node contributes a classified entry.
C6_ColorspaceOrder ==
    pc = "done" =>
        LET list == data.colorspaces
        IN  /\ Len(list) >= 3
            /\ list[1].name = Name_ACES /\ ~list[1].is_data
            /\ list[2].name = Name_OCES /\ ~list[2].is_data
            /\ list[3].name = Str_Raw /\ list[3].is_data
            /\ \A i \in 4..Len(list) : ~list[i].is_data
            /\ \A i, j \in 4..Len(list) :
                  i < j => FamilyIndex(list[i].family) <= FamilyIndex(list[j].family)
            /\ Len(list) = 3 + Cardinality(ClassifiedNodes)
            /\ \A i \in 4..Len(list) :
                  \E n \in ClassifiedNodes :
                      list[i].name = ctl[n].name /\ list[i].family = ctl[n].family

\* Entries of three families, whose nodes the graph holds in another order,
\* and reference nodes that passed the family filter.
C6_Witness ==
    /\ pc = "done"
    /\ {Node_LogC, Node_ACEScg, Node_Rec709} \subseteq ClassifiedNodes
    /\ Len(data.colorspaces) = 6
    /\ data.colorspaces[4].name = Name_ACEScg
    /\ data.colorspaces[5].name = Name_LogC
    /\ data.colorspaces[6].name = Name_Rec709
    /\ ctl[ACES_CONFIG_REFERENCE_COLORSPACE].family = "csc"

\* C8: when no path exists the call returns no transform instead of
\* raising, and generate_config_aces runs to completion over all nodes; a
\* node with a path in one direction only keeps that direction's transform.
C8_NoPathIsNotAnError ==
    /\ pc # "raised"
    /\ pc = "done" =>
          \A n \in ClassifiedNodes :
              /\ EntriesOf(n) # {}
              /\ \A i \in EntriesOf(n) :
                    /\ (~NoForwardPath(n) /\ NoReversePath(n)) =>
                          /\ data.colorspaces[i].to_reference # None
                          /\ data.colorspaces[i].from_reference = None
                    /\ (NoForwardPath(n) /\ ~NoReversePath(n)) =>
                          /\ data.colorspaces[i].to_reference = None
                          /\ data.colorspaces[i].from_reference # None

\* A run that completed over a node with a forward path only, a node with a
\* reverse path only and a node with no path.
C8_Witness ==
    /\ pc = "done"
    /\ \E n \in ClassifiedNodes : ~NoForwardPath(n) /\ NoReversePath(n)
    /\ \E n \in ClassifiedNodes : NoForwardPath(n) /\ ~NoReversePath(n)
    /\ \E n \in ClassifiedNodes : NoForwardPath(n) /\ NoReversePath(n)

====
